---- MODULE Spec2Model ----
(***************************************************************************)
(* Model of emulated_hue/controllers/devices.py: one light device with its *)
(* backend state, persisted state and control-state store, the write       *)
(* operations wrapped by ensure_control_state, the throttle gate and the   *)
(* commit protocol (async_execute); and the device factory with its cache  *)
(* (async_get_device).                                                     *)
(*                                                                         *)
(* An EntityState is a function from the names of its defined fields to    *)
(* their values: a field that is None in Python is absent from the domain. *)
(* Durations are kept in milliseconds (transition_seconds * 1000, and the  *)
(* clock datetime.now().timestamp() * 1000), so all arithmetic is integer.  *)
(***************************************************************************)
EXTENDS Integers, Sequences, FiniteSets, TLC

VARIABLES
    devType,            \* class of the device object (fixed by the factory)
    throttle_ms,        \* self._throttle_ms (None when the config has no "throttle")
    enabled,            \* self._enabled
    built,              \* the constructor and the first refresh have completed
    ctor_err,           \* exception raised by the constructor ("" for none)
    default_transition, \* self._default_transition, in ms
    last_update,        \* self._last_update, in ms
    hass_state_dict,    \* self._hass_state_dict: newest snapshot read from the backend
    hass_state,         \* self._hass_state
    config_saved,       \* self._config["state"]
    config_state,       \* self._config_state
    control_state,      \* self._control_state: handle -> EntityState
    inflight,           \* commits suspended in their backend dispatch (with history:
                        \* at, the time the dispatch started; refreshed, whether a
                        \* refresh completed since)
    now,                \* the newest reading of the wall clock, in ms
    fuel,               \* number of operations the clients and the scheduler may still start
    requested,          \* history: per open handle, the settings its callers asked for
    allowed_at,         \* history: time of the last commit the gate allowed (None: never)
    ev,                 \* history: the operation that made the last step, and its outcome
    released,           \* history: the handles whose entry a commit has popped
    foreign,            \* history: the open handles that a call without a handle got
                        \* although an earlier entry of that handle had been popped
    supported_color_modes, \* the entity's supported_color_modes attribute
    device_cache,       \* __device_cache[entity_id]: an instance, or None
    instances,          \* the device objects constructed for the entity: their classes
    scheduled,          \* the instances handed to add_scheduler, in order
    calls               \* the calls of async_get_device for the entity

\* the factory and its registry
factoryVars == <<supported_color_modes, device_cache, instances, scheduled, calls>>

\* one device object
deviceVars == <<devType, throttle_ms, enabled, built, ctor_err, default_transition,
                last_update, hass_state_dict, hass_state, config_saved, config_state,
                control_state, inflight, now, fuel, requested, allowed_at, ev,
                released, foreign>>

vars == <<deviceVars, factoryVars>>

----------------------------------------------------------------------------
(* Bounds of the model *)

\* operations started in one behaviour of Spec and SpecReconcile
MaxSteps == 3
\* operations started in one behaviour of SpecThrottle
MaxStepsThrottle == 4
\* operations started in one behaviour of SpecRefresh
MaxStepsRefresh == 2
\* operations started in one behaviour of SpecColor
MaxStepsColor == 2
\* operations started in one behaviour of SpecOwnership
MaxStepsOwnership == 6
\* the largest handle the store may hold
MaxHandle == 2
\* the clock readings are 0..MaxTime
MaxTime == 4
\* commits that may be suspended in their dispatch at once
MaxInflight == 2
\* concurrent calls of the factory for the entity
MaxCalls == 2
\* the positive throttle interval tried, in ms
ThrottleT == 2

(* Values of the program *)

\* Python's None, where an integer is expected
None == -1
\* a positional argument the caller did not pass
Absent == -2
\* const.DEFAULT_TRANSITION_SECONDS, in ms
DEFAULT_TRANSITION_MS == 400

DeviceTypes == {"OnOff", "Brightness", "CT", "RGB", "RGBW"}

\* models.ALL_STATES: the fields of an EntityState
ALL_STATES ==
    {"power_state", "reachable", "transition_seconds", "brightness",
     "color_temp", "color_mode", "hue_saturation", "xy_color", "rgb_color",
     "effect", "flash_state"}

\* EntityState(): every field None
EmptyState == [f \in {} |-> 0]

\* setattr(s, f, v) with v not None
With(s, f, v) == [g \in (DOMAIN s) \cup {f} |-> IF g = f THEN v ELSE s[g]]

\* setattr(s, f, None)
Without(s, f) == [g \in (DOMAIN s) \ {f} |-> s[g]]

\* setattr(s, f, d.get(k)): None when the key is missing
SetFrom(s, f, d, k) == IF k \in DOMAIN d THEN With(s, f, d[k]) ELSE Without(s, f)

Max(S) == CHOOSE m \in S : \A n \in S : n <= m

RemoveAt(q, i) == [j \in 1..(Len(q) - 1) |-> IF j < i THEN q[j] ELSE q[j + 1]]

----------------------------------------------------------------------------
(* Inputs: what the collaborators may hand to the device *)

\* attributes of a backend snapshot, by the capabilities of the entity
Attributes(t) ==
    CASE t = "OnOff" -> {EmptyState}
      [] t = "Brightness" -> {EmptyState, [brightness |-> 128]}
      [] t = "CT" ->
            {EmptyState,
             [brightness |-> 128, color_temp |-> 300, color_mode |-> "color_temp"]}
      [] t = "RGB" ->
            {EmptyState,
             [brightness |-> 128, color_mode |-> "hs", hs_color |-> <<10, 20>>,
              xy_color |-> <<3, 3>>, rgb_color |-> <<1, 2, 3>>]}
      [] t = "RGBW" ->
            {EmptyState,
             [brightness |-> 128, color_temp |-> 300, color_mode |-> "color_temp"],
             [color_mode |-> "xy", xy_color |-> <<3, 3>>]}

\* ctrl_hass.get_entity_state(entity_id)
Snapshots(t) ==
    {[state |-> "on", attributes |-> a] : a \in Attributes(t)}
        \cup {[state |-> s, attributes |-> EmptyState] : s \in {"off", "unavailable"}}

\* config.get("state", {}) as loaded from the persisted store at start
StoredStates ==
    {EmptyState,
     [power_state |-> FALSE, brightness |-> 200, color_temp |-> 250]}

\* config.get("throttle")
Throttles == {None, 0, ThrottleT}

----------------------------------------------------------------------------
(* Capability composition: _update_device_state along the class hierarchy *)

\* a base layer that forgets the reachability
OnOff_update_device_state_no_reachable(h, d, full_update, dflt) ==
    IF full_update
    THEN [power_state |-> (d.state = "on"),
          transition_seconds |-> dflt]
    ELSE h

OnOff_update_device_state(h, d, full_update, dflt) ==
    IF full_update
    THEN [power_state |-> (d.state = "on"),
          reachable |-> (d.state # "unavailable"),
          transition_seconds |-> dflt]
    ELSE h

\* a brightness layer that keeps the old value when the snapshot has none
Brightness_fields_keeping(h, d) ==
    IF "brightness" \in DOMAIN d.attributes
    THEN With(h, "brightness", d.attributes.brightness)
    ELSE h

Brightness_fields(h, d) == SetFrom(h, "brightness", d.attributes, "brightness")

CT_fields(h, d) ==
    SetFrom(SetFrom(h, "color_temp", d.attributes, "color_temp"),
            "color_mode", d.attributes, "color_mode")

RGB_fields(h, d) ==
    SetFrom(SetFrom(SetFrom(SetFrom(h,
        "hue_saturation", d.attributes, "hs_color"),
        "xy_color", d.attributes, "xy_color"),
        "rgb_color", d.attributes, "rgb_color"),
        "color_mode", d.attributes, "color_mode")

Brightness_update_device_state(h, d, full_update, dflt) ==
    Brightness_fields(OnOff_update_device_state(h, d, full_update, dflt), d)

\* CTDevice on its own: super() is BrightnessDevice
CT_update_device_state(h, d, full_update, dflt) ==
    CT_fields(Brightness_update_device_state(h, d, full_update, dflt), d)

RGB_update_device_state(h, d, full_update, dflt) ==
    RGB_fields(Brightness_update_device_state(h, d, full_update, dflt), d)

\* RGBWDevice: in its method resolution order CTDevice's super() is RGBDevice,
\* so the forced-full CTDevice pass runs the RGB pass below it; the second,
\* partial RGBDevice pass then runs on the record the first pass built.
RGBW_update_device_state(h, d, full_update, dflt) ==
    RGB_update_device_state(
        CT_fields(RGB_update_device_state(h, d, TRUE, dflt), d),
        d, FALSE, dflt)

update_device_state(t, h, d, full_update, dflt) ==
    CASE t = "OnOff" -> OnOff_update_device_state(h, d, full_update, dflt)
      [] t = "Brightness" -> Brightness_update_device_state(h, d, full_update, dflt)
      [] t = "CT" -> CT_update_device_state(h, d, full_update, dflt)
      [] t = "RGB" -> RGB_update_device_state(h, d, full_update, dflt)
      [] t = "RGBW" -> RGBW_update_device_state(h, d, full_update, dflt)

----------------------------------------------------------------------------
(* Reconciler *)

\* a reconciler that prefers the last saved value to the backend's
update_config_states_saved_first(control, hass, saved) ==
    LET D == {f \in ALL_STATES :
                 f \in DOMAIN control \/ f \in DOMAIN hass \/ f \in DOMAIN saved}
    IN [f \in D |->
            IF f \in DOMAIN control THEN control[f]
            ELSE IF f \in DOMAIN saved THEN saved[f]
            ELSE hass[f]]

\* a reconciler that prefers the backend's value to the command's
update_config_states_backend_first(control, hass, saved) ==
    LET D == {f \in ALL_STATES :
                 f \in DOMAIN control \/ f \in DOMAIN hass \/ f \in DOMAIN saved}
    IN [f \in D |->
            IF f \in DOMAIN hass THEN hass[f]
            ELSE IF f \in DOMAIN control THEN control[f]
            ELSE saved[f]]

\* _async_update_config_states: the new save_state.  control is the committed
\* control state, or EmptyState when the caller passes none.
update_config_states(control, hass, saved) ==
    LET D == {f \in ALL_STATES :
                 f \in DOMAIN control \/ f \in DOMAIN hass \/ f \in DOMAIN saved}
    IN [f \in D |->
            IF f \in DOMAIN control THEN control[f]
            ELSE IF f \in DOMAIN hass THEN hass[f]
            ELSE saved[f]]

----------------------------------------------------------------------------
(* Control-state store *)

\* __next_control_state_id
next_control_state_id(store) ==
    IF DOMAIN store # {} THEN Max(DOMAIN store) + 1 ELSE 0

\* EntityState(power_state=self._config_state.power_state,
\*             transition_seconds=self._default_transition)
SeedState(cfg, dflt) ==
    SetFrom([transition_seconds |-> dflt], "power_state", cfg, "power_state")

\* _new_control_state: "if not control_id" takes None and 0 alike
new_control_state_id(store, control_id) ==
    IF control_id = None \/ control_id = 0
    THEN next_control_state_id(store)
    ELSE control_id

\* self._control_state[control_id] = ...
Put(store, id, s) ==
    [k \in (DOMAIN store) \cup {id} |-> IF k = id THEN s ELSE store[k]]

\* a lookup that leaves the entry in the store
Pop_keeping(store, id) == store

\* self._control_state.pop(control_id, None): the store afterwards
Pop(store, id) == [k \in (DOMAIN store) \ {id} |-> store[k]]

\* ensure_control_state, up to the call of the wrapped function:
\*   args[2] raises IndexError when the handle is not passed positionally;
\*   "args[2] or kwargs.get('control_id')" turns handle 0 into None.
ensure_control_state(store, arg, cfg, dflt) ==
    IF arg = Absent
    THEN [err |-> "IndexError", id |-> None, store |-> store, fresh |-> FALSE]
    ELSE LET control_id == IF arg = 0 THEN None ELSE arg IN
         IF control_id = None
         THEN LET id == new_control_state_id(store, None)
              IN [err |-> "", id |-> id, fresh |-> TRUE,
                  store |-> Put(store, id, SeedState(cfg, dflt))]
         ELSE IF control_id \notin DOMAIN store
         THEN LET id == new_control_state_id(store, control_id)
              IN [err |-> "", id |-> control_id, fresh |-> TRUE,
                  store |-> Put(store, id, SeedState(cfg, dflt))]
         ELSE [err |-> "", id |-> control_id, store |-> store, fresh |-> FALSE]

----------------------------------------------------------------------------
(* Throttle gate *)

\* a gate that never looks at the clock
update_allowed_no_clock(thr, cfg, control, t, last) ==
    IF thr = None \/ thr = 0 THEN TRUE
    ELSE IF cfg = control THEN FALSE
    ELSE TRUE

\* _async_update_allowed: whether the commit may go on
update_allowed(thr, cfg, control, t, last) ==
    IF thr = None \/ thr = 0 THEN TRUE
    ELSE IF cfg = control THEN FALSE
    ELSE IF t - last < thr THEN FALSE
    ELSE TRUE

\* a gate that forgets to note the time of the commit it allows
update_allowed_last_stale(thr, cfg, control, t, last) == last

\* _async_update_allowed: self._last_update afterwards
update_allowed_last(thr, cfg, control, t, last) ==
    IF thr # None /\ thr # 0 /\ update_allowed(thr, cfg, control, t, last)
    THEN t
    ELSE last

----------------------------------------------------------------------------
(* History records *)

Ev(op, cid, ret, err, res) ==
    [op |-> op, cid |-> cid, ret |-> ret, err |-> err, res |-> res,
     cs |-> EmptyState, req |-> EmptyState, full |-> FALSE, refreshed |-> FALSE]

EvCommit(op, cid, err, res, cs, req) ==
    [op |-> op, cid |-> cid, ret |-> None, err |-> err, res |-> res,
     cs |-> cs, req |-> req, full |-> FALSE, refreshed |-> FALSE]

----------------------------------------------------------------------------
(* The state before the factory has built the device *)

\* no call of the factory has started
FactoryIdle ==
    /\ device_cache = None
    /\ instances = <<>>
    /\ scheduled = <<>>
    /\ calls = [c \in 1..MaxCalls |-> [pc |-> "idle", obj |-> None, ret |-> None]]

DeviceInit(types, throttles, enableds, stored, n) ==
    /\ devType \in types
    /\ throttle_ms \in throttles
    /\ enabled \in enableds
    /\ config_saved \in stored
    /\ built = FALSE
    /\ ctor_err = ""
    /\ default_transition = DEFAULT_TRANSITION_MS
    /\ last_update = 0
    /\ hass_state_dict = [state |-> "off", attributes |-> EmptyState]
    /\ hass_state = EmptyState
    /\ config_state = EmptyState
    /\ control_state = [k \in {} |-> EmptyState]
    /\ requested = [k \in {} |-> EmptyState]
    /\ inflight = <<>>
    /\ now = 0
    /\ fuel = n
    /\ allowed_at = None
    /\ ev = Ev("init", None, None, "", "")
    /\ released = {}
    /\ foreign = {}

InitWith(types, throttles, enableds, stored, n) ==
    /\ DeviceInit(types, throttles, enableds, stored, n)
    /\ supported_color_modes = {}
    /\ FactoryIdle


----------------------------------------------------------------------------
(* Operations *)

\* OnOffDevice.__init__ followed by the factory's first async_update_state().
\* "self._throttle_ms > self._default_transition" raises TypeError on None; it
\* compares milliseconds with seconds.
Construct(snapshot) ==
    /\ ~built /\ ctor_err = ""
    /\ snapshot \in Snapshots(devType)
    /\ IF throttle_ms = None
       THEN /\ ctor_err' = "TypeError"
            /\ ev' = Ev("construct", None, None, "TypeError", "")
            /\ UNCHANGED <<built, default_transition, last_update, hass_state_dict,
                           hass_state, config_saved, config_state>>
       ELSE LET dflt == IF throttle_ms * 1000 > DEFAULT_TRANSITION_MS
                        THEN throttle_ms
                        ELSE DEFAULT_TRANSITION_MS
                hs == update_device_state(devType, EmptyState, snapshot, TRUE, dflt)
                save == update_config_states(EmptyState, hs, config_saved)
            IN /\ built' = TRUE
               /\ default_transition' = dflt
               /\ last_update' = now
               /\ hass_state_dict' = snapshot
               /\ hass_state' = hs
               /\ config_saved' = save
               /\ config_state' = save
               /\ ev' = Ev("construct", None, None, "", "reconciled")
               /\ UNCHANGED ctor_err
    /\ UNCHANGED <<factoryVars, released, foreign>>
    /\ UNCHANGED <<devType, throttle_ms, enabled, control_state, inflight, now,
                   fuel, requested, allowed_at>>

\* async_update_state(full_update): the periodic refresh.  The device is built,
\* so self._config_state is set and "self._enabled or not self._config_state"
\* is self._enabled.
async_update_state(full_update, snapshot) ==
    /\ built /\ fuel > 0
    /\ snapshot \in Snapshots(devType)
    /\ fuel' = fuel - 1
    /\ IF enabled
       THEN LET hs == update_device_state(devType, hass_state, snapshot,
                                          full_update, default_transition)
                save == update_config_states(EmptyState, hs, config_saved)
            IN /\ hass_state_dict' = snapshot
               /\ hass_state' = hs
               /\ config_saved' = save
               /\ config_state' = save
               /\ inflight' = [i \in 1..Len(inflight) |->
                                   [inflight[i] EXCEPT !.refreshed = TRUE]]
               /\ ev' = [Ev("refresh", None, None, "", "reconciled")
                             EXCEPT !.full = full_update]
       ELSE /\ ev' = [Ev("refresh", None, None, "", "skipped")
                             EXCEPT !.full = full_update]
            /\ UNCHANGED <<hass_state_dict, hass_state, config_saved, config_state,
                           inflight>>
    /\ UNCHANGED <<factoryVars, released, foreign>>
    /\ UNCHANGED <<devType, throttle_ms, enabled, built, ctor_err, default_transition,
                   last_update, control_state, now, requested, allowed_at>>


\* What a decorated write operation leaves unchanged
WriteFrame ==
    /\ UNCHANGED <<factoryVars, released>>
    /\ UNCHANGED <<devType, throttle_ms, enabled, built, ctor_err, default_transition,
                last_update, hass_state_dict, hass_state, config_saved,
                config_state, inflight, now, allowed_at>>

\* The assignments of a wrapped function to its control state s: the fields
\* of set get their values, the fields of unset become None
Assign(s, set, unset) ==
    [f \in ((DOMAIN s) \cup (DOMAIN set)) \ unset |->
        IF f \in DOMAIN set THEN set[f] ELSE s[f]]

\* One call of a function wrapped by ensure_control_state, with the handle
\* argument arg, on the store: the wrapped function assigns set and unset to
\* the control state and raises body_err ("" for none)
wrapped_call(store, arg, set, unset, body_err) ==
    LET e == ensure_control_state(store, arg, config_state, default_transition)
    IN IF e.err # ""
       THEN [err |-> e.err, ret |-> None, store |-> store]
       ELSE IF body_err # ""
       THEN [err |-> body_err, ret |-> None, store |-> e.store]
       ELSE [err |-> "", ret |-> e.id,
             store |-> Put(e.store, e.id, Assign(e.store[e.id], set, unset))]

\* The step of the write operation op called with the handle argument arg,
\* whose wrapped calls gave the result r; field and value are the setting as
\* the caller passed it.
WriteStep(op, arg, field, value, r) ==
    /\ built /\ fuel > 0
    /\ fuel' = fuel - 1
    /\ \A k \in DOMAIN r.store : k <= MaxHandle
    /\ control_state' = r.store
    /\ LET req == [k \in DOMAIN r.store |->
                      IF k \in DOMAIN requested THEN requested[k] ELSE EmptyState]
       IN requested' = IF r.err = ""
                       THEN Put(req, r.ret, With(req[r.ret], field, value))
                       ELSE req
    /\ ev' = Ev(op, arg, r.ret, r.err, "")
    /\ foreign' = foreign \cup
          {k \in (DOMAIN r.store) \ (DOMAIN control_state) : k # arg /\ k \in released}
    /\ WriteFrame

\* A write operation that is one wrapped function
Write(op, arg, field, value, set, unset, body_err) ==
    WriteStep(op, arg, field, value,
              wrapped_call(control_state, arg, set, unset, body_err))

\* set_power_state: "args[1] or kwargs.get('setting')" turns False into None
set_power_state(power_state, arg) ==
    Write("set_power_state", arg, "power_state", power_state,
          IF power_state THEN [power_state |-> TRUE] ELSE EmptyState,
          IF power_state THEN {} ELSE {"power_state"},
          "")

\* utils.clamp
clamp(v, lo, hi) == IF v < lo THEN lo ELSE IF v > hi THEN hi ELSE v

\* set_brightness: a brightness of 0 reaches clamp() as None
set_brightness(brightness, arg) ==
    /\ devType # "OnOff"
    /\ Write("set_brightness", arg, "brightness", brightness,
             [brightness |-> clamp(brightness, 1, 255)], {},
             IF brightness = 0 THEN "TypeError" ELSE "")

\* the handle an undecorated method receives: its default is None
Passed(arg) == IF arg = Absent THEN None ELSE arg

\* set_transition_ms: a transition of 0 reaches the comparison with
\* self._throttle_ms as None
set_transition_ms_call(store, arg, transition_ms) ==
    wrapped_call(store, arg,
                 [transition_seconds |-> IF transition_ms < throttle_ms
                                         THEN throttle_ms ELSE transition_ms],
                 {},
                 IF transition_ms = 0 THEN "TypeError" ELSE "")

set_transition_ms(transition_ms, arg) ==
    WriteStep("set_transition_ms", arg, "transition_seconds", transition_ms,
              set_transition_ms_call(control_state, arg, transition_ms))

\* set_transition_seconds is not wrapped and passes control_id on by position;
\* transition_ms is transition_seconds * 1000
set_transition_seconds(transition_ms, arg) ==
    WriteStep("set_transition_seconds", arg, "transition_seconds", transition_ms,
              set_transition_ms_call(control_state, Passed(arg), transition_ms))

\* BrightnessDevice.set_flash
Brightness_set_flash(store, arg, flash) ==
    wrapped_call(store, arg, [flash_state |-> flash], {}, "")

\* CTDevice.set_color_temperature: a temperature of 0 is assigned as None
set_color_temperature_call(store, arg, color_temperature) ==
    wrapped_call(store, arg,
                 IF color_temperature = 0
                 THEN [color_mode |-> "color_temp"]
                 ELSE [color_temp |-> color_temperature, color_mode |-> "color_temp"],
                 IF color_temperature = 0 THEN {"color_temp"} ELSE {},
                 "")

\* RGBDevice.set_hue_sat
set_hue_sat_call(store, arg, hs) ==
    wrapped_call(store, arg,
                 [hue_saturation |-> hs, color_mode |-> "hs"], {}, "")

\* the property CTDevice.color_temp
color_temp == IF "color_temp" \in DOMAIN config_state THEN config_state.color_temp ELSE 153

\* the property RGBDevice.hue_sat
hue_sat == IF "hue_saturation" \in DOMAIN config_state
           THEN config_state.hue_saturation ELSE <<0, 0>>

\* the property color_mode of a CTDevice, which an RGBWDevice inherits
\* (CTDevice precedes RGBDevice in its method resolution order)
CT_color_mode == IF "color_mode" \in DOMAIN config_state
                 THEN config_state.color_mode ELSE "color_temp"

\* RGBDevice.set_flash: super() is BrightnessDevice; the color target goes to
\* the handle the flash returned, through the wrapper again
RGB_set_flash(store, arg, flash) ==
    LET r1 == Brightness_set_flash(store, Passed(arg), flash)
        r2 == set_hue_sat_call(r1.store, r1.ret, hue_sat)
    IN [err |-> "", ret |-> r1.ret, store |-> r2.store]

\* CTDevice.set_flash on a CTDevice: super() is BrightnessDevice
CT_set_flash(store, arg, flash) ==
    LET r1 == Brightness_set_flash(store, Passed(arg), flash)
        r2 == set_color_temperature_call(r1.store, r1.ret, color_temp)
    IN [err |-> "", ret |-> r1.ret, store |-> r2.store]

\* CTDevice.set_flash on an RGBWDevice: super() is RGBDevice
CT_set_flash_in_RGBW(store, arg, flash) ==
    LET r1 == RGB_set_flash(store, arg, flash)
        r2 == set_color_temperature_call(r1.store, r1.ret, color_temp)
    IN [err |-> "", ret |-> r1.ret, store |-> r2.store]

\* RGBWDevice.set_flash
RGBW_set_flash(store, arg, flash) ==
    IF CT_color_mode = "color_temp"
    THEN CT_set_flash_in_RGBW(store, arg, flash)
    ELSE RGB_set_flash(store, arg, flash)

\* set_flash of the device's class
set_flash(flash, arg) ==
    /\ devType # "OnOff"
    /\ WriteStep("set_flash", arg, "flash_state", flash,
                 CASE devType = "Brightness" -> Brightness_set_flash(control_state, arg, flash)
                   [] devType = "CT" -> CT_set_flash(control_state, arg, flash)
                   [] devType = "RGB" -> RGB_set_flash(control_state, arg, flash)
                   [] devType = "RGBW" -> RGBW_set_flash(control_state, arg, flash))

set_color_temperature(color_temperature, arg) ==
    /\ devType \in {"CT", "RGBW"}
    /\ WriteStep("set_color_temperature", arg, "color_temp", color_temperature,
                 set_color_temperature_call(control_state, arg, color_temperature))

set_hue_sat(hs, arg) ==
    /\ devType \in {"RGB", "RGBW"}
    /\ WriteStep("set_hue_sat", arg, "hue_saturation", hs,
                 set_hue_sat_call(control_state, arg, hs))

\* set_xy is not wrapped: its __control_state is the default None, and the
\* assignment of xy_color raises
set_xy(x_y, arg) ==
    /\ devType \in {"RGB", "RGBW"}
    /\ WriteStep("set_xy", arg, "xy_color", x_y,
                 [err |-> "AttributeError", ret |-> None, store |-> control_state])

set_rgb(r_g_b, arg) ==
    /\ devType \in {"RGB", "RGBW"}
    /\ Write("set_rgb", arg, "rgb_color", r_g_b,
             [rgb_color |-> r_g_b, color_mode |-> "rgb"], {}, "")

set_effect(effect, arg) ==
    /\ devType \in {"RGB", "RGBW"}
    /\ Write("set_effect", arg, "effect", effect, [effect |-> effect], {}, "")

\* a dispatch that always switches on
dispatch_command_always_on(cs) == "turn_on"

\* the backend call async_execute makes: "if control_state.power_state"
dispatch_command(cs) ==
    IF "power_state" \in DOMAIN cs /\ cs.power_state THEN "turn_on" ELSE "turn_off"

\* _async_update_allowed and the rest of async_execute up to the dispatch.
\* t is the clock reading of the gate, taken only when the gate gets that far.
async_execute(control_id, t) ==
    /\ built /\ fuel > 0
    /\ fuel' = fuel - 1
    /\ t \in now..MaxTime
    /\ IF control_id \notin DOMAIN control_state
       THEN /\ t = now
            /\ control_state' = Pop(control_state, control_id)
            /\ ev' = EvCommit("commit", control_id, "", "noentry", EmptyState, EmptyState)
            /\ UNCHANGED <<requested, inflight, last_update, now, allowed_at>>
       ELSE LET cs == control_state[control_id]
                req == requested[control_id]
                reads_clock == throttle_ms # None /\ throttle_ms # 0
                                    /\ config_state # cs
                ok == update_allowed(throttle_ms, config_state, cs, t, last_update)
            IN /\ reads_clock \/ t = now
               /\ ok => Len(inflight) < MaxInflight
               /\ control_state' = Pop(control_state, control_id)
               /\ requested' = [k \in DOMAIN control_state' |-> requested[k]]
               /\ last_update' = update_allowed_last(throttle_ms, config_state, cs,
                                                     t, last_update)
               /\ now' = t
               /\ IF ok
                  THEN /\ inflight' = Append(inflight,
                              [cs |-> cs, req |-> req, id |-> control_id,
                               at |-> t, cmd |-> dispatch_command(cs),
                               refreshed |-> FALSE])
                       /\ allowed_at' = t
                       /\ ev' = EvCommit("commit", control_id, "", "dispatching", cs, req)
                  ELSE /\ ev' = EvCommit("commit", control_id, "", "vetoed", cs, req)
                       /\ UNCHANGED <<inflight, allowed_at>>
    /\ released' = IF control_id \in DOMAIN control_state
                   THEN released \cup {control_id} ELSE released
    /\ foreign' = foreign \ {control_id}
    /\ UNCHANGED factoryVars
    /\ UNCHANGED <<devType, throttle_ms, enabled, built, ctor_err, default_transition,
                   hass_state_dict, hass_state, config_saved, config_state>>

\* async_execute resumed after the backend call returned:
\* _async_update_config_states(control_state)
async_execute_done(i) ==
    /\ i \in 1..Len(inflight)
    /\ LET c == inflight[i]
           save == update_config_states(c.cs, hass_state, config_saved)
       IN /\ config_saved' = save
          /\ config_state' = save
          /\ ev' = [EvCommit("commit_done", c.id, "", "reconciled", c.cs, c.req)
                        EXCEPT !.refreshed = c.refreshed]
    /\ inflight' = RemoveAt(inflight, i)
    /\ UNCHANGED <<factoryVars, released, foreign>>
    /\ UNCHANGED <<devType, throttle_ms, enabled, built, ctor_err, default_transition,
                   last_update, hass_state_dict, hass_state, control_state, now,
                   fuel, requested, allowed_at>>

\* a failure handler that puts the popped state back into the store
async_execute_raise_restoring(i) ==
    /\ i \in 1..Len(inflight)
    /\ ev' = EvCommit("commit_raise", inflight[i].id, "DispatchError", "",
                      inflight[i].cs, inflight[i].req)
    /\ control_state' = Put(control_state, inflight[i].id, inflight[i].cs)
    /\ requested' = Put(requested, inflight[i].id, inflight[i].req)
    /\ inflight' = RemoveAt(inflight, i)
    /\ UNCHANGED <<factoryVars, released, foreign>>
    /\ UNCHANGED <<devType, throttle_ms, enabled, built, ctor_err, default_transition,
                   last_update, hass_state_dict, hass_state, config_saved,
                   config_state, now, fuel, allowed_at>>

\* async_execute resumed by an exception of async_turn_on / async_turn_off
async_execute_raise(i) ==
    /\ i \in 1..Len(inflight)
    /\ ev' = EvCommit("commit_raise", inflight[i].id, "DispatchError", "",
                      inflight[i].cs, inflight[i].req)
    /\ inflight' = RemoveAt(inflight, i)
    /\ UNCHANGED <<factoryVars, released, foreign>>
    /\ UNCHANGED <<devType, throttle_ms, enabled, built, ctor_err, default_transition,
                   last_update, hass_state_dict, hass_state, config_saved,
                   config_state, control_state, now, fuel, requested, allowed_at>>

----------------------------------------------------------------------------
(* Device factory: async_get_device *)

\* the color modes a backend entity may list as supported
ColorModes ==
    {"onoff", "brightness", "color_temp", "hs", "xy", "rgb", "rgbw", "rgbww", "white"}

\* a decision table that looks for a color mode before it looks for color + white
device_class_color_first(modes) ==
    IF modes \cap {"hs", "xy", "rgb"} # {} THEN "RGB"
    ELSE IF /\ modes \cap {"hs", "xy", "rgb", "rgbw", "rgbww"} # {}
            /\ modes \cap {"color_temp", "rgbw", "rgbww", "white"} # {}
    THEN "RGBW"
    ELSE IF "color_temp" \in modes THEN "CT"
    ELSE IF "brightness" \in modes THEN "Brightness"
    ELSE "OnOff"

\* the if / elif chain that picks the class of device_obj
device_class(modes) ==
    IF /\ modes \cap {"hs", "xy", "rgb", "rgbw", "rgbww"} # {}
       /\ modes \cap {"color_temp", "rgbw", "rgbww", "white"} # {}
    THEN "RGBW"
    ELSE IF modes \cap {"hs", "xy", "rgb"} # {} THEN "RGB"
    ELSE IF "color_temp" \in modes THEN "CT"
    ELSE IF "brightness" \in modes THEN "Brightness"
    ELSE "OnOff"

FactoryFrame == UNCHANGED <<deviceVars, supported_color_modes>>

\* async_get_device up to its first await: the cache lookup
get_device_begin(c) ==
    /\ calls[c].pc = "idle"
    /\ IF device_cache # None
       THEN calls' = [calls EXCEPT ![c] = [pc |-> "returned", obj |-> None,
                                           ret |-> device_cache]]
       ELSE calls' = [calls EXCEPT ![c].pc = "light_id"]
    /\ UNCHANGED <<device_cache, instances, scheduled>>
    /\ FactoryFrame

\* resumed with the light id: await ctrl_config.async_get_light_config(light_id)
get_device_light_id(c) ==
    /\ calls[c].pc = "light_id"
    /\ calls' = [calls EXCEPT ![c].pc = "config"]
    /\ UNCHANGED <<device_cache, instances, scheduled>>
    /\ FactoryFrame

\* resumed with the config: reads the snapshot, picks the class, constructs
\* device_obj and starts its first refresh, which suspends in the store
get_device_build(c) ==
    /\ calls[c].pc = "config"
    /\ instances' = Append(instances, device_class(supported_color_modes))
    /\ calls' = [calls EXCEPT ![c] = [pc |-> "refresh", obj |-> Len(instances) + 1,
                                       ret |-> None]]
    /\ UNCHANGED <<device_cache, scheduled>>
    /\ FactoryFrame

\* resumed after the first refresh: add_scheduler, the cache entry, return
get_device_register(c) ==
    /\ calls[c].pc = "refresh"
    /\ scheduled' = Append(scheduled, calls[c].obj)
    /\ device_cache' = calls[c].obj
    /\ calls' = [calls EXCEPT ![c] = [pc |-> "returned", obj |-> calls[c].obj,
                                       ret |-> calls[c].obj]]
    /\ UNCHANGED instances
    /\ FactoryFrame

----------------------------------------------------------------------------

(* Specifications *)

\* handle arguments a caller may pass
HandleArgs == {Absent, None} \cup 0..MaxHandle

\* a caller that passes no handle, or the handle 1
FewArgs == {None, 1}

Brightnesses == {0, 300}

\* transition times a caller may ask for, in ms
TransitionTimes == {0, 1, 5}

\* The control-state store and the commit protocol, on a dimmable device
\* without throttling
Init == InitWith({"Brightness"}, {0}, {TRUE}, {EmptyState}, MaxSteps)

Next ==
    \/ \E s \in Snapshots(devType) : Construct(s)
    \/ \E s \in Snapshots(devType) : async_update_state(TRUE, s)
    \/ \E p \in BOOLEAN : \E a \in HandleArgs : set_power_state(p, a)
    \/ \E b \in Brightnesses : \E a \in HandleArgs : set_brightness(b, a)
    \/ \E h \in 0..MaxHandle : async_execute(h, now)
    \/ \E i \in 1..MaxInflight : async_execute_done(i)
    \/ \E i \in 1..MaxInflight : async_execute_raise(i)

Spec == Init /\ [][Next]_vars

\* The throttle gate, on an on/off device, for every throttle setting
InitThrottle == InitWith({"OnOff"}, Throttles, {TRUE}, {EmptyState}, MaxStepsThrottle)

NextThrottle ==
    \/ \E s \in Snapshots(devType) : Construct(s)
    \/ \E p \in BOOLEAN : \E a \in FewArgs : set_power_state(p, a)
    \/ \E h \in 0..MaxHandle : \E t \in 0..MaxTime : async_execute(h, t)
    \/ \E i \in 1..MaxInflight : async_execute_done(i)
    \/ \E i \in 1..MaxInflight : async_execute_raise(i)

SpecThrottle == InitThrottle /\ [][NextThrottle]_vars

\* Reconciliation, for every capability composition
InitReconcile == InitWith(DeviceTypes, {0}, {TRUE}, StoredStates, MaxSteps)

NextReconcile ==
    \/ \E s \in Snapshots(devType) : Construct(s)
    \/ \E full \in BOOLEAN : \E s \in Snapshots(devType) : async_update_state(full, s)
    \/ \E p \in BOOLEAN : \E a \in FewArgs : set_power_state(p, a)
    \/ \E a \in FewArgs : set_brightness(300, a)
    \/ \E h \in 0..MaxHandle : async_execute(h, now)
    \/ \E i \in 1..MaxInflight : async_execute_done(i)

SpecReconcile == InitReconcile /\ [][NextReconcile]_vars

\* The write operations of the color layers
InitColor == InitWith({"CT", "RGB", "RGBW"}, {0}, {TRUE}, {EmptyState}, MaxStepsColor)

NextColor ==
    \/ \E s \in Snapshots(devType) : Construct(s)
    \/ \E a \in HandleArgs : set_flash("long", a)
    \/ \E a \in HandleArgs : set_color_temperature(400, a)
    \/ \E a \in HandleArgs : set_hue_sat(<<30, 40>>, a)
    \/ \E a \in HandleArgs : set_xy(<<5, 5>>, a)
    \/ \E a \in HandleArgs : set_rgb(<<7, 8, 9>>, a)
    \/ \E a \in HandleArgs : set_effect("colorloop", a)
    \/ \E h \in 0..MaxHandle : async_execute(h, now)
    \/ \E i \in 1..MaxInflight : async_execute_done(i)

SpecColor == InitColor /\ [][NextColor]_vars

\* The transition time, with and without throttling
InitTransition == InitWith({"OnOff"}, {0, ThrottleT}, {TRUE}, {EmptyState}, MaxSteps)

NextTransition ==
    \/ \E s \in Snapshots(devType) : Construct(s)
    \/ \E v \in TransitionTimes : \E a \in HandleArgs : set_transition_ms(v, a)
    \/ \E v \in TransitionTimes : \E a \in HandleArgs : set_transition_seconds(v, a)
    \/ \E a \in FewArgs : set_power_state(TRUE, a)
    \/ \E h \in 0..MaxHandle : \E t \in 0..MaxTime : async_execute(h, t)
    \/ \E i \in 1..MaxInflight : async_execute_done(i)

SpecTransition == InitTransition /\ [][NextTransition]_vars

\* Commits and refreshes interleaved, under a positive throttle
InitInterleave == InitWith({"OnOff"}, {ThrottleT}, {TRUE}, {EmptyState}, MaxStepsThrottle)

NextInterleave ==
    \/ \E s \in Snapshots(devType) : Construct(s)
    \/ \E s \in Snapshots(devType) : async_update_state(TRUE, s)
    \/ \E p \in BOOLEAN : \E a \in FewArgs : set_power_state(p, a)
    \/ \E h \in 0..MaxHandle : \E t \in 0..MaxTime : async_execute(h, t)
    \/ \E i \in 1..MaxInflight : async_execute_done(i)
    \/ \E i \in 1..MaxInflight : async_execute_raise(i)

SpecInterleave == InitInterleave /\ [][NextInterleave]_vars

\* Several clients staging and committing on one device
InitOwnership == InitWith({"OnOff"}, {0}, {TRUE}, {EmptyState}, MaxStepsOwnership)

NextOwnership ==
    \/ \E s \in Snapshots(devType) : Construct(s)
    \/ \E on \in BOOLEAN, a \in FewArgs : set_power_state(on, a)
    \/ \E h \in 0..MaxHandle : async_execute(h, now)
    \/ \E i \in 1..MaxInflight : async_execute_done(i)

SpecOwnership == InitOwnership /\ [][NextOwnership]_vars

\* The refresh, on enabled and disabled devices of every composition
InitRefresh == InitWith(DeviceTypes, {0}, BOOLEAN, StoredStates, MaxStepsRefresh)

NextRefresh ==
    \/ \E s \in Snapshots(devType) : Construct(s)
    \/ \E full \in BOOLEAN : \E s \in Snapshots(devType) : async_update_state(full, s)
    \/ \E a \in FewArgs : set_brightness(300, a)
    \/ \E h \in 0..MaxHandle : async_execute(h, now)
    \/ \E i \in 1..MaxInflight : async_execute_done(i)

SpecRefresh == InitRefresh /\ [][NextRefresh]_vars

\* The factory, for every set of supported color modes
InitFactory ==
    /\ DeviceInit({"OnOff"}, {0}, {TRUE}, {EmptyState}, 0)
    /\ supported_color_modes \in SUBSET ColorModes
    /\ FactoryIdle

NextFactory ==
    \/ \E c \in 1..MaxCalls : get_device_begin(c)
    \/ \E c \in 1..MaxCalls : get_device_light_id(c)
    \/ \E c \in 1..MaxCalls : get_device_build(c)
    \/ \E c \in 1..MaxCalls : get_device_register(c)

SpecFactory == InitFactory /\ [][NextFactory]_vars

----------------------------------------------------------------------------
(* Vocabulary of the properties *)

WriteOps ==
    {"set_power_state", "set_brightness", "set_transition_ms",
     "set_transition_seconds", "set_flash", "set_color_temperature",
     "set_hue_sat", "set_xy", "set_rgb", "set_effect"}

\* this step is the call of operation op
Started(op) == fuel' = fuel - 1 /\ ev'.op = op

\* this step is the call of a write operation
StartedWrite == fuel' = fuel - 1 /\ ev'.op \in WriteOps

\* this step resumes a commit that was suspended in its dispatch
Resumed(op) == fuel' = fuel /\ Len(inflight') = Len(inflight) - 1 /\ ev'.op = op

\* this step is the constructor together with the first refresh
Constructed == ~built /\ built'

\* the value of field f of s as an option: <<>> for None
Field(s, f) == IF f \in DOMAIN s THEN <<s[f]>> ELSE <<>>

PersistedUnchanged == config_state' = config_state /\ config_saved' = config_saved

----------------------------------------------------------------------------
(* C1: after every reconciliation (the first refresh of the constructor, a
   refresh, the end of an allowed commit) every field of the persisted state
   is the committed control state's value if that is defined, else the backend
   state's if defined, else the value persisted before, else unset; and an
   RGBW device whose snapshot reports color_mode and xy_color but no color
   temperature persists both and keeps its color temperature. *)
C1_ReconcilePrecedence ==
    [][ /\ ( \/ Constructed
             \/ (Started("refresh") /\ ev'.res = "reconciled")
             \/ Resumed("commit_done") )
           => LET control == IF ev'.op = "commit_done" THEN ev'.cs ELSE EmptyState
              IN /\ config_saved' = config_state'
                 /\ \A f \in ALL_STATES :
                       Field(config_state', f) =
                           IF f \in DOMAIN control THEN <<control[f]>>
                           ELSE IF f \in DOMAIN hass_state' THEN <<hass_state'[f]>>
                           ELSE Field(config_saved, f)
        /\ ( /\ devType = "RGBW"
             /\ Constructed \/ Started("refresh")
             /\ {"color_mode", "xy_color"} \subseteq DOMAIN hass_state_dict'.attributes
             /\ "color_temp" \notin DOMAIN hass_state_dict'.attributes )
           => /\ Field(config_state', "color_mode")
                    = <<hass_state_dict'.attributes.color_mode>>
              /\ Field(config_state', "xy_color")
                    = <<hass_state_dict'.attributes.xy_color>>
              /\ Field(config_state', "color_temp") = Field(config_saved, "color_temp")
      ]_vars

\* an RGBW device took a snapshot in xy mode without a color temperature and
\* still holds the temperature persisted earlier
C1_Witness ==
    /\ devType = "RGBW" /\ ev.op = "refresh" /\ ev.res = "reconciled"
    /\ hass_state_dict.attributes = [color_mode |-> "xy", xy_color |-> <<3, 3>>]
    /\ Field(config_state, "color_mode") = <<"xy">>
    /\ Field(config_state, "xy_color") = <<<<3, 3>>>>
    /\ Field(config_state, "color_temp") = <<300>>
    /\ "color_temp" \notin DOMAIN hass_state

(* C2: when set_power_state(p, h) was written onto a command and its commit
   was allowed and dispatched, the persisted power_state is p at the end of the
   commit, for p = true and for p = false. *)
C2_CommittedPowerPersisted ==
    (ev.op = "commit_done" /\ "power_state" \in DOMAIN ev.req)
        => Field(config_state, "power_state") = <<ev.req.power_state>>

(* C3: a write called with a handle that names an open entry, handle 0
   included, returns that handle, creates no entry and leaves every field
   written so far set on the entry; the commit of an open handle removes that
   entry and no other. *)
C3_ChainedWrites ==
    [][ /\ (StartedWrite /\ ev'.cid \in DOMAIN control_state)
           => /\ ev'.err = ""
              /\ ev'.ret = ev'.cid
              /\ DOMAIN control_state' = DOMAIN control_state
              /\ DOMAIN requested'[ev'.cid] \subseteq DOMAIN control_state'[ev'.cid]
        /\ (Started("commit") /\ ev'.cid \in DOMAIN control_state)
           => DOMAIN control_state' = (DOMAIN control_state) \ {ev'.cid}
      ]_vars

(* C4: a write called without a handle creates one new entry, at handle 0 when
   the store is empty and at the largest handle + 1 otherwise, seeded with the
   persisted power state and the default transition time, and returns the new
   handle. *)
C4_FreshHandle ==
    [][ (StartedWrite /\ ev'.cid \in {Absent, None})
           => /\ ev'.err = ""
              /\ ev'.ret = next_control_state_id(control_state)
              /\ DOMAIN control_state' = (DOMAIN control_state) \cup {ev'.ret}
              /\ \A k \in DOMAIN control_state : control_state'[k] = control_state[k]
              /\ Field(control_state'[ev'.ret], "transition_seconds")
                    = <<default_transition>>
              /\ ev'.op # "set_power_state"
                    => Field(control_state'[ev'.ret], "power_state")
                           = Field(config_state, "power_state")
      ]_vars

(* C5: the commit of a handle removes its entry in the step that starts the
   commit and touches no other entry; the commit of a handle that names no
   entry raises nothing, dispatches nothing and leaves the store, the persisted
   state and the throttle timestamp as they were. *)
C5_CommitAtMostOnce ==
    [][ Started("commit")
           => /\ ev'.cid \notin DOMAIN control_state'
              /\ \A k \in (DOMAIN control_state) \ {ev'.cid} :
                    k \in DOMAIN control_state' /\ control_state'[k] = control_state[k]
              /\ ev'.cid \notin DOMAIN control_state
                    => /\ ev'.err = "" /\ ev'.res = "noentry"
                       /\ control_state' = control_state
                       /\ inflight' = inflight
                       /\ last_update' = last_update
                       /\ PersistedUnchanged
      ]_vars

\* a handle is committed a second time while its first commit is still in its
\* dispatch: the second commit finds no entry
C5_Witness ==
    /\ ev.op = "commit" /\ ev.res = "noentry"
    /\ Len(inflight) = 1 /\ inflight[1].id = ev.cid

(* C6: a write given a handle that names no entry raises nothing, allocates
   the next handle (largest + 1, or 0 for the empty store), creates the seeded
   entry there, applies the write to it and returns the new handle. *)
C6_StaleHandleReallocated ==
    [][ (StartedWrite /\ ev'.cid \in 0..MaxHandle /\ ev'.cid \notin DOMAIN control_state)
           => /\ ev'.err = ""
              /\ ev'.ret = next_control_state_id(control_state)
              /\ DOMAIN control_state' = (DOMAIN control_state) \cup {ev'.ret}
              /\ Field(control_state'[ev'.ret], "transition_seconds")
                    = <<default_transition>>
      ]_vars

(* C7: with throttle_ms 0 or unset the device can be constructed and the gate
   allows the commit of every existing handle. *)
C7_ThrottleDisabled ==
    (throttle_ms = None \/ throttle_ms = 0)
        => /\ ctor_err = ""
           /\ ev.op = "commit" => ev.res \in {"dispatching", "noentry"}

(* C8: with throttle_ms = T > 0, the commit of an existing handle evaluated
   less than T ms after a commit the gate allowed is vetoed: nothing is
   dispatched, the persisted state and the last-allowed timestamp stay, and the
   entry is removed from the store. *)
C8_VetoWithinInterval ==
    [][ ( /\ Started("commit")
          /\ throttle_ms > 0
          /\ ev'.cid \in DOMAIN control_state
          /\ allowed_at # None
          /\ now' - allowed_at < throttle_ms )
           => /\ ev'.res = "vetoed"
              /\ inflight' = inflight
              /\ last_update' = last_update
              /\ PersistedUnchanged
              /\ control_state' = Pop(control_state, ev'.cid)
              /\ ev'.cid \notin DOMAIN control_state'
      ]_vars

\* a commit was vetoed less than T ms after an allowed one
C8_Witness ==
    /\ throttle_ms > 0
    /\ ev.op = "commit" /\ ev.res = "vetoed"
    /\ allowed_at # None
    /\ now - allowed_at < throttle_ms
    /\ now > allowed_at

(* C9: with throttle_ms = T > 0, the commit of an existing handle whose state
   differs from the persisted state is allowed when no allowed dispatch
   happened in the T ms before it (the first commit of a device included,
   however soon after the construction), and the time of its evaluation becomes
   the last-allowed timestamp. *)
C9_AllowedAfterInterval ==
    [][ ( /\ Started("commit")
          /\ throttle_ms > 0
          /\ ev'.cid \in DOMAIN control_state
          /\ control_state[ev'.cid] # config_state
          /\ allowed_at = None \/ now' - allowed_at >= throttle_ms )
           => /\ ev'.res = "dispatching"
              /\ last_update' = now'
      ]_vars

(* C10: a failed backend dispatch raises to the caller of the commit, does not
   put the popped entry back into the store, and neither the start of the
   commit nor its failure changes the persisted state. *)
C10_DispatchFailure ==
    [][ /\ Resumed("commit_raise")
           => /\ ev'.err = "DispatchError"
              /\ control_state' = control_state
              /\ PersistedUnchanged
        /\ Started("commit") => PersistedUnchanged
      ]_vars

\* a dispatch failed: the command is gone from the store and from the
\* dispatches, the persisted state is the one the backend last reported
C10_Witness ==
    /\ ev.op = "commit_raise" /\ ev.err = "DispatchError"
    /\ ev.cid \notin DOMAIN control_state
    /\ inflight = <<>>
    /\ "brightness" \in DOMAIN ev.cs
    /\ "brightness" \notin DOMAIN config_state

(* C11: for every set S of supported color modes every device object the
   factory constructs has the composition chosen by first match: RGBW if S has
   one of hs, xy, rgb, rgbw, rgbww and one of color_temp, rgbw, rgbww, white;
   else RGB if S has one of hs, xy, rgb; else ColorTemperature if S has
   color_temp; else Brightness if S has brightness; else OnOff.  A call
   constructs one object. *)
C11_FirstMatch ==
    LET S == supported_color_modes
        has(M) == \E m \in M : m \in S
        color == has({"hs", "xy", "rgb", "rgbw", "rgbww"})
        white == has({"color_temp", "rgbw", "rgbww", "white"})
    IN /\ \A i \in 1..Len(instances) :
            /\ (color /\ white) => instances[i] = "RGBW"
            /\ (~(color /\ white) /\ has({"hs", "xy", "rgb"})) => instances[i] = "RGB"
            /\ (~color /\ "color_temp" \in S) => instances[i] = "CT"
            /\ (~color /\ "color_temp" \notin S /\ "brightness" \in S)
                   => instances[i] = "Brightness"
            /\ (~color /\ "color_temp" \notin S /\ "brightness" \notin S)
                   => instances[i] = "OnOff"
            /\ S = {} => instances[i] = "OnOff"
            /\ S = {"brightness"} => instances[i] = "Brightness"
            /\ S = {"color_temp"} => instances[i] = "CT"
            /\ S = {"xy"} => instances[i] = "RGB"
            /\ S = {"color_temp", "xy"} => instances[i] = "RGBW"
       /\ \A c \in 1..MaxCalls : \A d \in 1..MaxCalls :
            (calls[c].obj # None /\ calls[c].obj = calls[d].obj) => c = d

\* the factory returned an RGBW device for the modes color_temp and xy
C11_Witness ==
    /\ supported_color_modes = {"color_temp", "xy"}
    /\ \E c \in 1..MaxCalls :
          /\ calls[c].pc = "returned" /\ calls[c].obj # None
          /\ instances[calls[c].ret] = "RGBW"

(* C12: under every interleaving of factory calls for one entity at most one
   device object is constructed and registered for the periodic refresh, and
   every call returns that object. *)
C12_OneInstance ==
    /\ Len(instances) <= 1
    /\ Len(scheduled) <= 1
    /\ \A c \in 1..MaxCalls : \A d \in 1..MaxCalls :
          (calls[c].pc = "returned" /\ calls[d].pc = "returned")
              => calls[c].ret = calls[d].ret

\* the fields of the OnOff layer
BaseFields == {"power_state", "reachable", "transition_seconds"}

\* the fields the layers above OnOff read from the attributes of a snapshot
LayerFields(t) ==
    CASE t = "OnOff" -> {}
      [] t = "Brightness" -> {"brightness"}
      [] t = "CT" -> {"brightness", "color_temp", "color_mode"}
      [] t = "RGB" -> {"brightness", "hue_saturation", "xy_color", "rgb_color",
                       "color_mode"}
      [] t = "RGBW" -> {"brightness", "color_temp", "hue_saturation", "xy_color",
                        "rgb_color", "color_mode"}

\* the attribute of a snapshot that carries field f
AttrKey(f) == IF f = "hue_saturation" THEN "hs_color" ELSE f

\* the backend state after this step is built from the snapshot alone
WholesaleFromSnapshot ==
    /\ DOMAIN hass_state' = BaseFields \cup
            {f \in LayerFields(devType) : AttrKey(f) \in DOMAIN hass_state_dict'.attributes}
    /\ hass_state'.power_state = (hass_state_dict'.state = "on")
    /\ hass_state'.reachable = (hass_state_dict'.state # "unavailable")
    /\ hass_state'.transition_seconds = default_transition
    /\ \A f \in LayerFields(devType) :
          Field(hass_state', f) = Field(hass_state_dict'.attributes, AttrKey(f))

\* the persisted state after this step is the reconciliation without a command
Reconciled ==
    /\ config_saved' = config_state'
    /\ \A f \in ALL_STATES :
          Field(config_state', f) =
              IF f \in DOMAIN hass_state' THEN <<hass_state'[f]>>
              ELSE Field(config_saved, f)

(* C13: every invocation of the refresh, on every device whatever its enabled
   flag and however many refreshes preceded it, replaces the backend state
   wholesale with a record built from the newest snapshot and then rewrites the
   persisted state by reconciliation. *)
C13_EveryRefreshReplaces ==
    [][ Started("refresh")
           => /\ ev'.res = "reconciled"
              /\ WholesaleFromSnapshot
              /\ Reconciled
      ]_vars

(* C13 as amended: a refresh of an enabled device with full_update true (the
   scheduler's and the factory's; on an RGBW device also with full_update
   false) replaces the backend state wholesale and rewrites the persisted state
   by reconciliation; a partial refresh of an enabled device keeps the OnOff
   fields of the backend state, re-reads the fields of the other layers from
   the newest snapshot and reconciles; a refresh of a disabled device that has
   a persisted state changes nothing. *)
C13_RefreshByFlag ==
    [][ Started("refresh")
           => /\ ~enabled
                    => /\ ev'.res = "skipped"
                       /\ UNCHANGED <<hass_state_dict, hass_state, config_saved,
                                      config_state>>
              /\ (enabled /\ (ev'.full \/ devType = "RGBW"))
                    => /\ ev'.res = "reconciled"
                       /\ WholesaleFromSnapshot
                       /\ Reconciled
              /\ (enabled /\ ~ev'.full /\ devType # "RGBW")
                    => /\ ev'.res = "reconciled"
                       /\ \A f \in BaseFields :
                             Field(hass_state', f) = Field(hass_state, f)
                       /\ \A f \in LayerFields(devType) :
                             Field(hass_state', f)
                                 = Field(hass_state_dict'.attributes, AttrKey(f))
                       /\ DOMAIN hass_state' \subseteq BaseFields \cup LayerFields(devType)
                       /\ Reconciled
      ]_vars

\* a full refresh of an enabled dimmable device took a snapshot without
\* brightness after one with brightness: the backend state has none, the
\* persisted state keeps the old one
C13_Witness ==
    /\ enabled /\ devType = "Brightness"
    /\ ev.op = "refresh" /\ ev.res = "reconciled" /\ ev.full
    /\ hass_state_dict.state = "off"
    /\ "brightness" \notin DOMAIN hass_state
    /\ Field(config_state, "brightness") = <<128>>
    /\ Field(hass_state, "power_state") = <<FALSE>>

\* the fields the claim counts as relevant to a composition
RelevantFields(t) == BaseFields \cup LayerFields(t)

(* C14: once the factory has returned the device, it has exactly one persisted
   state record and every field relevant to its composition is defined in it,
   also when the snapshot omits the field and nothing was persisted for it. *)
C14_FullyDefined ==
    built => /\ config_saved = config_state
             /\ RelevantFields(devType) \subseteq DOMAIN config_state

(* C14 as amended: once the factory has returned the device, it has exactly one
   persisted state record, in which power_state, reachable and
   transition_seconds are defined; any other field is defined if and only if
   the newest backend state reports it, a committed command set it, or it was
   defined in the persisted state before (so a field never becomes unset, and a
   field no source ever supplied stays unset). *)
C14_BaseDefined ==
    [][ /\ built' => /\ config_saved' = config_state'
                     /\ BaseFields \subseteq DOMAIN config_state'
                     /\ DOMAIN config_state' \subseteq ALL_STATES
        /\ (Constructed \/ Started("refresh") \/ Resumed("commit_done"))
              => DOMAIN config_state' =
                    (DOMAIN config_saved)
                        \cup (IF ev'.res = "skipped" THEN {} ELSE DOMAIN hass_state')
                        \cup (IF ev'.op = "commit_done" THEN DOMAIN ev'.cs ELSE {})
        /\ DOMAIN config_state \subseteq DOMAIN config_state'
      ]_vars

\* a dimmable device was built from a snapshot without brightness while
\* nothing was persisted: its persisted state has no brightness
C14_Witness ==
    /\ built /\ devType = "Brightness"
    /\ "brightness" \notin DOMAIN config_state
    /\ BaseFields \subseteq DOMAIN config_state
    /\ config_saved = config_state

\* the fields a write operation is there to set; set_flash of the color
\* layers also sets a color target
OwnFields(op) ==
    CASE op = "set_power_state" -> {"power_state"}
      [] op = "set_brightness" -> {"brightness"}
      [] op \in {"set_transition_ms", "set_transition_seconds"} -> {"transition_seconds"}
      [] op = "set_flash" -> {"flash_state", "color_temp", "hue_saturation", "color_mode"}
      [] op = "set_color_temperature" -> {"color_temp", "color_mode"}
      [] op = "set_hue_sat" -> {"hue_saturation", "color_mode"}
      [] op = "set_xy" -> {"xy_color", "color_mode"}
      [] op = "set_rgb" -> {"rgb_color", "color_mode"}
      [] op = "set_effect" -> {"effect"}

(* C15: a write called with a handle h that names an open entry changes only
   its own fields of entry h: the other fields of entry h, every other entry
   (none created, removed or modified), the persisted state, the backend state
   and the throttle timestamp are unchanged; also for set_flash of the color
   layers, which re-asserts a color target. *)
C15_WriteFrame ==
    [][ (StartedWrite /\ ev'.cid \in DOMAIN control_state)
           => /\ DOMAIN control_state' = DOMAIN control_state
              /\ \A k \in (DOMAIN control_state) \ {ev'.cid} :
                    control_state'[k] = control_state[k]
              /\ \A f \in ALL_STATES \ OwnFields(ev'.op) :
                    Field(control_state'[ev'.cid], f) = Field(control_state[ev'.cid], f)
              /\ PersistedUnchanged
              /\ hass_state' = hass_state
              /\ last_update' = last_update
      ]_vars

\* field f of the entry the call returned was not written by the call
NotWritten(f) ==
    Field(control_state'[ev'.ret], f) =
        IF ev'.ret \in DOMAIN control_state
        THEN Field(control_state[ev'.ret], f)
        ELSE <<>>

(* C16: set_flash(f, h) on an RGBW device returns a handle whose entry has
   flash = f and, when the device's color_mode is color_temp, the current color
   temperature with color_mode = color_temp and no hue/saturation written,
   otherwise the current hue/saturation with color_mode = hs and no color
   temperature written; flash and color target are on the returned handle. *)
C16_FlashDelegation ==
    [][ (Started("set_flash") /\ devType = "RGBW")
           => /\ ev'.err = ""
              /\ ev'.ret \in DOMAIN control_state'
              /\ Field(control_state'[ev'.ret], "flash_state") = <<"long">>
              /\ IF CT_color_mode = "color_temp"
                 THEN /\ Field(control_state'[ev'.ret], "color_temp") = <<color_temp>>
                      /\ Field(control_state'[ev'.ret], "color_mode") = <<"color_temp">>
                      /\ NotWritten("hue_saturation")
                 ELSE /\ Field(control_state'[ev'.ret], "hue_saturation") = <<hue_sat>>
                      /\ Field(control_state'[ev'.ret], "color_mode") = <<"hs">>
                      /\ NotWritten("color_temp")
      ]_vars

(* C17: on an RGB or RGBW device set_xy(xy, h), with no handle or with any
   handle, completes without error, obtains or creates the entry, sets its
   xy_color to xy and its color_mode to xy, and returns the entry's handle. *)
C17_SetXY ==
    [][ Started("set_xy")
           => /\ ev'.err = ""
              /\ ev'.ret \in DOMAIN control_state'
              /\ Field(control_state'[ev'.ret], "xy_color") = <<<<5, 5>>>>
              /\ Field(control_state'[ev'.ret], "color_mode") = <<"xy">>
      ]_vars

(* C18: every pending control state's transition time is at least throttle_ms:
   set_transition_ms(v, h) and set_transition_seconds(v / 1000, h) leave the
   entry with transition = max(v, throttle_ms), and the default transition
   seeded into new entries is never shorter than throttle_ms; no dispatched
   command asks for a shorter transition. *)
C18_TransitionAtLeastThrottle ==
    [][ /\ \A k \in DOMAIN control_state' :
              /\ "transition_seconds" \in DOMAIN control_state'[k]
              /\ control_state'[k].transition_seconds >= throttle_ms
        /\ \A i \in 1..Len(inflight') :
              inflight'[i].cs.transition_seconds >= throttle_ms
        /\ built' => default_transition' >= throttle_ms
        /\ ( /\ Started("set_transition_ms") \/ Started("set_transition_seconds")
             /\ ev'.cid # Absent \/ ev'.op = "set_transition_seconds" )
              => /\ ev'.err = ""
                 /\ ev'.ret \in DOMAIN control_state'
                 /\ control_state'[ev'.ret].transition_seconds
                       = Max({requested'[ev'.ret].transition_seconds, throttle_ms})
      ]_vars

(* C19: an allowed commit pops, passes the gate, dispatches and reconciles in
   that order: it dispatches exactly one backend command, power-on if the
   popped state's power_state is true and power-off otherwise; the handle is
   out of the store when the dispatch starts; the persisted state is not
   modified before the dispatch has completed, and is reconciled with the
   popped state when it has. *)
C19_CommitOrder ==
    [][ /\ (Started("commit") /\ ev'.res = "dispatching")
              => /\ ev'.cid \in DOMAIN control_state
                 /\ ev'.cid \notin DOMAIN control_state'
                 /\ Len(inflight') = Len(inflight) + 1
                 /\ \A i \in 1..Len(inflight) : inflight'[i] = inflight[i]
                 /\ inflight'[Len(inflight')].cs = control_state[ev'.cid]
                 /\ inflight'[Len(inflight')].cmd =
                       IF Field(control_state[ev'.cid], "power_state") = <<TRUE>>
                       THEN "turn_on" ELSE "turn_off"
                 /\ PersistedUnchanged
        /\ (Started("commit") /\ ev'.res # "dispatching")
              => inflight' = inflight /\ PersistedUnchanged
        /\ Len(inflight') > Len(inflight) => Started("commit")
        /\ Resumed("commit_done")
              => /\ \E i \in 1..Len(inflight) :
                       /\ inflight[i].cs = ev'.cs
                       /\ inflight' = RemoveAt(inflight, i)
                 /\ control_state' = control_state
                 /\ \A f \in DOMAIN ev'.cs : Field(config_state', f) = <<ev'.cs[f]>>
      ]_vars

\* a power-on command is in its dispatch: its handle is out of the store and
\* the persisted state still says off
C19_Witness ==
    /\ ev.op = "commit" /\ ev.res = "dispatching"
    /\ ev.cid \notin DOMAIN control_state
    /\ Len(inflight) = 1
    /\ inflight[1].cmd = "turn_on"
    /\ Field(inflight[1].cs, "power_state") = <<TRUE>>
    /\ Field(config_state, "power_state") = <<FALSE>>

(* C20: with throttle_ms = T > 0 and a clock that does not go back, under
   every interleaving of commits and refreshes, a commit that starts while an
   earlier one is suspended in its dispatch included, two backend dispatches
   start at least T ms apart: the gate checks the time and notes it in the
   step that starts the dispatch. *)
C20_DispatchesApart ==
    [][ /\ now' >= now
        /\ (Started("commit") /\ ev'.res = "dispatching" /\ throttle_ms > 0)
              => /\ allowed_at # None => now' - allowed_at >= throttle_ms
                 /\ \A i \in 1..Len(inflight) : now' - inflight[i].at >= throttle_ms
                 /\ inflight'[Len(inflight')].at = now'
                 /\ last_update' = now'
      ]_vars

\* two commits are suspended in their dispatches, started T ms or more apart
C20_Witness ==
    /\ throttle_ms > 0
    /\ Len(inflight) = 2
    /\ inflight[2].at - inflight[1].at >= throttle_ms
    /\ ev.op = "commit" /\ ev.res = "dispatching"

(* C21: if a refresh ran to completion while a commit was suspended in its
   dispatch, then at the end of that commit the persisted state holds the
   command's value for every field the command defined, and for every other
   field the value of the backend state that refresh installed, or the value
   persisted before where the backend state leaves it unset. *)
C21_RefreshDuringCommit ==
    [][ (Resumed("commit_done") /\ ev'.refreshed)
           => /\ hass_state' = hass_state
              /\ hass_state.power_state = (hass_state_dict.state = "on")
              /\ hass_state.reachable = (hass_state_dict.state # "unavailable")
              /\ Field(hass_state, "brightness")
                    = Field(hass_state_dict.attributes, "brightness")
              /\ \A f \in DOMAIN hass_state : Field(config_state, f) = <<hass_state[f]>>
              /\ config_saved' = config_state'
              /\ \A f \in ALL_STATES :
                    Field(config_state', f) =
                        IF f \in DOMAIN ev'.cs THEN <<ev'.cs[f]>>
                        ELSE IF f \in DOMAIN hass_state THEN <<hass_state[f]>>
                        ELSE Field(config_state, f)
      ]_vars

\* a power-on command that sets no brightness finished after a refresh that
\* found the entity unavailable: the persisted state is on (the command) and
\* unreachable (the refresh)
C21_Witness ==
    /\ ev.op = "commit_done" /\ ev.refreshed
    /\ Field(ev.cs, "power_state") = <<TRUE>>
    /\ "brightness" \notin DOMAIN ev.cs
    /\ Field(hass_state, "power_state") = <<FALSE>>
    /\ Field(config_state, "power_state") = <<TRUE>>
    /\ Field(config_state, "reachable") = <<FALSE>>

(* C22: a control state is owned by the staging that created it until it is
   committed: a handle a client kept after its commit never names a control
   state that another client staged later (a call without a handle is not
   given a handle whose earlier entry a commit has popped), and a write
   through such a handle never modifies one. *)
C22_ExclusiveOwnership ==
    [][ /\ foreign' = {}
        /\ (StartedWrite /\ ev'.cid \in foreign)
              => control_state'[ev'.cid] = control_state[ev'.cid]
      ]_vars

====
